---- MODULE Spec2Model ----
(***************************************************************************)
(* Model of main6(CSP).py: the weather-constrained activity scheduler.     *)
(*                                                                         *)
(* Time is counted in half hours since midnight (16 = 08:00, 17 = 08:30,   *)
(* 24 = 12:00): every duration the input form accepts is a multiple of     *)
(* 0.5 h.  An activity's "duration" field holds its declared duration in   *)
(* half hours, so  int(duration * 2)  is the field itself,  int(duration)  *)
(* is  duration \div 2 , and  timedelta(hours = duration)  and             *)
(* timedelta(minutes = duration * 60)  both advance the clock by the       *)
(* field.  Activity names are small naturals standing for strings in       *)
(* their sort order.                                                       *)
(*                                                                         *)
(* A weather row that  weather_dict.get(hour)  finds is taken to be        *)
(* truthy (a plain mapping with a chance_of_rain entry); a missing hour    *)
(* yields None.                                                            *)
(*                                                                         *)
(* problem.addVariable and problem.getSolution are the python-constraint   *)
(* library's: Problem.addVariable raises ValueError on a duplicated        *)
(* variable and on an empty domain; Problem.getSolution first filters      *)
(* each domain by the unary constraints, returns None if one is left       *)
(* empty, and then runs BacktrackingSolver (forward checking on, values    *)
(* taken with list.pop(), that is last first).                             *)
(***************************************************************************)
EXTENDS Integers, Sequences, FiniteSets, TLC

VARIABLES activities, weather_dict, start_datetime, end_datetime,
          pc, idx, possible, variables, constraints, solution, schedule,
          result, wcc_rain, wcc_prefs, wcc_result

vars == <<activities, weather_dict, start_datetime, end_datetime,
          pc, idx, possible, variables, constraints, solution, schedule,
          result, wcc_rain, wcc_prefs, wcc_result>>

inputs == <<activities, weather_dict, start_datetime, end_datetime>>

wcc_vars == <<wcc_rain, wcc_prefs, wcc_result>>

solver_vars == <<pc, idx, possible, variables, constraints, solution,
                 schedule, result>>

----------------------------------------------------------------------------
(* Bounds of the model *)

MaxActs == 2

MaxDur == 4

MaxPrefs == 3

(* The planning windows tried: <<start, end>> in half hours. *)
Windows == {<<16, 24>>, <<17, 20>>, <<16, 16>>}

(* The hours the weather series may cover: 08:00, 09:00, 10:00, 11:00. *)
HourKeys == {16, 18, 20, 22}

RainValues == {10, 90}

PrefChoices == {<<"Sunny">>, <<"Cloudy", "Rainy">>}

Conditions == {"Sunny", "Cloudy", "Rainy"}

(* The names given to k activities: all different in ascending or in
   descending order, or all the same. *)
NameSeqs(k) == {[i \in 1..k |-> i], [i \in 1..k |-> k + 1 - i],
                [i \in 1..k |-> 1]}

Range(s) == {s[i] : i \in 1..Len(s)}

SeqsUpTo(S, n) == UNION {[1..k -> S] : k \in 0..n}

----------------------------------------------------------------------------
(* weather_condition_check *)

(* condition_map with Sunny's bound made inclusive *)
condition_map_SunnyInclusive(preference, rain_chance) ==
    CASE preference = "Sunny"  -> rain_chance <= 20
      [] preference = "Cloudy" -> 20 <= rain_chance /\ rain_chance <= 70
      [] preference = "Rainy"  -> rain_chance > 70

condition_map(preference, rain_chance) ==
    CASE preference = "Sunny"  -> rain_chance < 20
      [] preference = "Cloudy" -> 20 <= rain_chance /\ rain_chance <= 70
      [] preference = "Rainy"  -> rain_chance > 70

RECURSIVE weather_condition_check(_, _)
weather_condition_check(chance_of_rain, preferences) ==
    IF preferences = <<>> THEN FALSE
    ELSE IF condition_map(Head(preferences), chance_of_rain) THEN TRUE
    ELSE weather_condition_check(chance_of_rain, Tail(preferences))

(* is_within_time_range: defined in the source, called nowhere. *)
is_within_time_range(start_time, end_time, activity_start, activity_duration) ==
    LET activity_end == activity_start + activity_duration
    IN  start_time <= activity_start /\ activity_end <= end_time

(* weather_constraint: hour_offset runs over range(int(duration)); an hour
   with no row in weather_dict is skipped. *)
weather_constraint(start_time, duration, prefs, wdict) ==
    \A hour_offset \in 0..((duration \div 2) - 1) :
        LET hour == start_time + 2 * hour_offset
        IN  hour \in DOMAIN wdict
                => weather_condition_check(wdict[hour], prefs)

----------------------------------------------------------------------------
(* solve_csp: the domain of one activity *)

RangeSeq(n) == [k \in 1..n |-> k - 1]

(* The test of line 104 applied to the start instead of the end *)
PossibleStartOk_StartOnly(hour, duration, start, end) ==
    LET possible_start == start + 2 * hour
    IN  possible_start <= end

PossibleStartOk(hour, duration, start, end) ==
    LET possible_start == start + 2 * hour
        possible_end == possible_start + 2 * duration
    IN  possible_end <= end

PossibleStartTimes(duration, start, end) ==
    LET n == (end - start) - duration
        Keep(hour) == PossibleStartOk(hour, duration, start, end)
        kept == SelectSeq(RangeSeq(n), Keep)
    IN  [i \in 1..Len(kept) |-> start + 2 * kept[i]]

(* no_overlap with the second end compared to the first end *)
no_overlap_EndToEnd(start1, start2, dur1, dur2) ==
    LET end1 == start1 + dur1
        end2 == start2 + dur2
    IN  end1 <= start2 \/ end2 <= end1

(* no_overlap *)
no_overlap(start1, start2, dur1, dur2) ==
    LET end1 == start1 + dur1
        end2 == start2 + dur2
    IN  end1 <= start2 \/ end2 <= start1

----------------------------------------------------------------------------
(* solve_csp, lines 130-140: the constraints handed to the problem, in the
   order they are added.  Each closure captures the durations (and the
   preferences) of the activities it was made for. *)

OverlapPairs(acts) ==
    LET n == Len(acts)
        PairAt(k) == <<((k - 1) \div n) + 1, ((k - 1) % n) + 1>>
        all == [k \in 1..(n * n) |-> PairAt(k)]
        Upper(p) == p[1] < p[2]
    IN  SelectSeq(all, Upper)

OverlapConstraints(acts) ==
    LET pairs == OverlapPairs(acts)
    IN  [k \in 1..Len(pairs) |->
            [kind |-> "no_overlap",
             vars |-> <<acts[pairs[k][1]].name, acts[pairs[k][2]].name>>,
             dur1 |-> acts[pairs[k][1]].duration,
             dur2 |-> acts[pairs[k][2]].duration,
             prefs |-> <<>>]]

WeatherConstraints(acts) ==
    [k \in 1..Len(acts) |->
        [kind |-> "weather",
         vars |-> <<acts[k].name>>,
         dur1 |-> acts[k].duration,
         dur2 |-> 0,
         prefs |-> acts[k].weather]]

----------------------------------------------------------------------------
(* problem.getSolution() *)

IsUnary(c) == Len(c.vars) = 1

IsBinary(c) == Len(c.vars) = 2

(* Constraint.preProcess: a constraint over one variable filters that
   variable's domain and is then dropped. *)
RECURSIVE preProcess(_, _, _)
preProcess(cs, doms, wdict) ==
    IF cs = <<>> THEN doms
    ELSE LET c == Head(cs)
             v == c.vars[1]
             Keep(value) == weather_constraint(value, c.dur1, c.prefs, wdict)
         IN  IF IsUnary(c)
             THEN preProcess(Tail(cs),
                             [doms EXCEPT ![v] = SelectSeq(doms[v], Keep)],
                             wdict)
             ELSE preProcess(Tail(cs), doms, wdict)

(* vconstraints[variable] once the unary constraints are dropped *)
vconstraints(variable, cs) ==
    LET Mine(c) == IsBinary(c) /\ variable \in Range(c.vars)
    IN  SelectSeq(cs, Mine)

(* The sort key (-len(vconstraints), len(domain), variable), compared as
   Python compares tuples. *)
SortsBefore(v, w, doms, cs) ==
    LET dv == Len(vconstraints(v, cs))
        dw == Len(vconstraints(w, cs))
    IN  \/ dv > dw
        \/ dv = dw /\ Len(doms[v]) < Len(doms[w])
        \/ dv = dw /\ Len(doms[v]) = Len(doms[w]) /\ v < w

NextVariable(assignments, doms, cs) ==
    LET unassigned == DOMAIN doms \ DOMAIN assignments
    IN  CHOOSE v \in unassigned :
            \A w \in unassigned \ {v} : SortsBefore(v, w, doms, cs)

Extend(assignments, variable, value) ==
    [v \in DOMAIN assignments \cup {variable} |->
        IF v = variable THEN value ELSE assignments[v]]

(* FunctionConstraint.__call__ with forward checking, over the constraints
   of the variable just assigned, stopping at the first that fails.  With
   both variables assigned the function decides; with one missing its
   domain loses (hides) every value the function rejects, and the
   constraint fails if none is left. *)
RECURSIVE CheckConstraints(_, _, _, _)
CheckConstraints(cs, assignments, doms, hidden) ==
    IF cs = <<>> THEN [ok |-> TRUE, domains |-> doms, hidden |-> hidden]
    ELSE
      LET c == Head(cs)
          a == c.vars[1]
          b == c.vars[2]
      IN  IF a \in DOMAIN assignments /\ b \in DOMAIN assignments
          THEN IF no_overlap(assignments[a], assignments[b], c.dur1, c.dur2)
               THEN CheckConstraints(Tail(cs), assignments, doms, hidden)
               ELSE [ok |-> FALSE, domains |-> doms, hidden |-> hidden]
          ELSE
            LET u == IF a \in DOMAIN assignments THEN b ELSE a
                Good(value) ==
                    IF u = b
                    THEN no_overlap(assignments[a], value, c.dur1, c.dur2)
                    ELSE no_overlap(value, assignments[b], c.dur1, c.dur2)
                Bad(value) == ~Good(value)
                doms2 == [doms EXCEPT ![u] = SelectSeq(doms[u], Good)]
                hidden2 == [hidden EXCEPT
                               ![u] = hidden[u] \o SelectSeq(doms[u], Bad)]
            IN  IF doms2[u] = <<>>
                THEN [ok |-> FALSE, domains |-> doms2, hidden |-> hidden2]
                ELSE CheckConstraints(Tail(cs), assignments, doms2, hidden2)

(* Domain.popState: the values hidden since the matching pushState come
   back at the end of the list. *)
popState(doms, hidden) ==
    [v \in DOMAIN doms |-> doms[v] \o hidden[v]]

(* BacktrackingSolver.getSolutionIter up to its first solution. *)
RECURSIVE Backtrack(_, _, _)
RECURSIVE TryValues(_, _, _, _, _)

Backtrack(assignments, doms, cs) ==
    IF DOMAIN assignments = DOMAIN doms
    THEN [found |-> TRUE, solution |-> assignments, domains |-> doms]
    ELSE LET variable == NextVariable(assignments, doms, cs)
         IN  TryValues(variable, doms[variable], assignments, doms, cs)

TryValues(variable, values, assignments, doms, cs) ==
    IF values = <<>>
    THEN [found |-> FALSE, solution |-> assignments, domains |-> doms]
    ELSE
      LET value == values[Len(values)]
          rest == SubSeq(values, 1, Len(values) - 1)
          assigned == Extend(assignments, variable, value)
          nothing == [v \in DOMAIN doms |-> <<>>]
          fc == CheckConstraints(vconstraints(variable, cs), assigned,
                                 doms, nothing)
      IN  IF ~fc.ok
          THEN TryValues(variable, rest, assignments,
                         popState(fc.domains, fc.hidden), cs)
          ELSE LET r == Backtrack(assigned, fc.domains, cs)
               IN  IF r.found THEN r
                   ELSE TryValues(variable, rest, assignments,
                                  popState(r.domains, fc.hidden), cs)

NoSolution == [found |-> FALSE, solution |-> <<>>]

getSolution(doms, cs, wdict) ==
    LET filtered == preProcess(cs, doms, wdict)
    IN  IF \E v \in DOMAIN filtered : filtered[v] = <<>>
        THEN NoSolution
        ELSE LET r == Backtrack(<<>>, filtered, cs)
             IN  IF r.found
                 THEN [found |-> TRUE, solution |-> r.solution]
                 ELSE NoSolution

----------------------------------------------------------------------------
(* The state machine of one solve_csp call *)

Activity(n, d, w) == [name |-> n, duration |-> d, weather |-> w]

ActivityLists ==
    UNION {{[i \in 1..k |-> Activity(ns[i], ds[i], ws[i])] :
                ns \in NameSeqs(k),
                ds \in [1..k -> 1..MaxDur],
                ws \in [1..k -> PrefChoices]}
           : k \in 1..MaxActs}

WeatherDicts == UNION {[D -> RainValues] : D \in SUBSET HourKeys}

InitSolver ==
    /\ pc = "addVariable"
    /\ idx = 1
    /\ possible = <<>>
    /\ variables = <<>>
    /\ constraints = <<>>
    /\ solution = NoSolution
    /\ schedule = <<>>
    /\ result = "running"

Init ==
    /\ activities \in ActivityLists
    /\ weather_dict \in WeatherDicts
    /\ \E w \in Windows : start_datetime = w[1] /\ end_datetime = w[2]
    /\ InitSolver
    /\ wcc_rain = 0
    /\ wcc_prefs = <<>>
    /\ wcc_result = "unused"

(* Lines 95-108: one turn of the loop that builds an activity's domain and
   adds its variable.  problem.addVariable raises ValueError when the name
   is already a variable and when the domain is empty; solve_csp catches
   nothing. *)
AddVariable ==
    /\ pc = "addVariable"
    /\ idx <= Len(activities)
    /\ LET activity == activities[idx]
           possible_start_times ==
               PossibleStartTimes(activity.duration, start_datetime,
                                  end_datetime)
       IN  /\ possible' = Append(possible, possible_start_times)
           /\ IF activity.name \in DOMAIN variables
                 \/ possible_start_times = <<>>
              THEN /\ pc' = "done"
                   /\ result' = "ValueError"
                   /\ UNCHANGED <<idx, variables>>
              ELSE /\ variables' = Extend(variables, activity.name,
                                          possible_start_times)
                   /\ idx' = idx + 1
                   /\ UNCHANGED <<pc, result>>
    /\ UNCHANGED <<inputs, constraints, solution, schedule, wcc_vars>>

(* Lines 130-140. *)
AddConstraints ==
    /\ pc = "addVariable"
    /\ idx > Len(activities)
    /\ constraints' = OverlapConstraints(activities)
                          \o WeatherConstraints(activities)
    /\ pc' = "getSolution"
    /\ UNCHANGED <<inputs, idx, possible, variables, solution, schedule,
                   result, wcc_vars>>

(* Line 143. *)
GetSolution ==
    /\ pc = "getSolution"
    /\ solution' = getSolution(variables, constraints, weather_dict)
    /\ pc' = "return"
    /\ UNCHANGED <<inputs, idx, possible, variables, constraints, schedule,
                   result, wcc_vars>>

(* Lines 145-146. *)
ReturnNoSchedule ==
    /\ pc = "return"
    /\ ~solution.found
    /\ result' = "No feasible schedule found."
    /\ pc' = "done"
    /\ UNCHANGED <<inputs, idx, possible, variables, constraints, solution,
                   schedule, wcc_vars>>

ActivityNamed(activity_name) ==
    LET first == CHOOSE i \in 1..Len(activities) :
                    /\ activities[i].name = activity_name
                    /\ \A j \in 1..(i - 1) : activities[j].name # activity_name
    IN  activities[first]

(* Lines 148-155. *)
BuildSchedule ==
    /\ pc = "return"
    /\ solution.found
    /\ schedule' = [activity_name \in DOMAIN solution.solution |->
                       LET start_time == solution.solution[activity_name]
                           activity == ActivityNamed(activity_name)
                       IN  [start |-> start_time,
                            end |-> start_time + activity.duration]]
    /\ result' = "schedule"
    /\ pc' = "done"
    /\ UNCHANGED <<inputs, idx, possible, variables, constraints, solution,
                   wcc_vars>>

Next ==
    \/ AddVariable
    \/ AddConstraints
    \/ GetSolution
    \/ ReturnNoSchedule
    \/ BuildSchedule

Spec == Init /\ [][Next]_vars

----------------------------------------------------------------------------
(* weather_condition_check on its own, over every chance of rain and every
   short preference list *)

InitWCC ==
    /\ wcc_rain \in 0..100
    /\ wcc_prefs \in SeqsUpTo(Conditions, MaxPrefs)
    /\ wcc_result = "pending"
    /\ activities = <<>>
    /\ weather_dict = <<>>
    /\ start_datetime = 0
    /\ end_datetime = 0
    /\ InitSolver

CheckWeather ==
    /\ wcc_result = "pending"
    /\ wcc_result' = IF weather_condition_check(wcc_rain, wcc_prefs)
                     THEN "True" ELSE "False"
    /\ UNCHANGED <<inputs, solver_vars, wcc_rain, wcc_prefs>>

NextWCC == CheckWeather

SpecWCC == InitWCC /\ [][NextWCC]_vars

----------------------------------------------------------------------------
(* Vocabulary of the properties *)

Returned == pc = "done" /\ result = "schedule"

StartOf(i) == schedule[activities[i].name].start

DistinctNames ==
    \A i, j \in 1..Len(activities) :
        i # j => activities[i].name # activities[j].name

(* The hours (as hour-aligned times) that meet [start, start + duration) *)
OccupiedHours(start, duration) ==
    {h \in 0..48 : h % 2 = 0 /\ h < start + duration /\ start < h + 2}

Acceptable(rain, prefs) ==
    \E k \in 1..Len(prefs) :
        \/ prefs[k] = "Sunny" /\ rain < 20
        \/ prefs[k] = "Cloudy" /\ 20 <= rain /\ rain <= 70
        \/ prefs[k] = "Rainy" /\ rain > 70

(* The weather constraint as specified: every occupied hour is observed and
   acceptable. *)
WeatherFits(start, duration, prefs) ==
    \A h \in OccupiedHours(start, duration) :
        h \in DOMAIN weather_dict /\ Acceptable(weather_dict[h], prefs)

(* The domain as specified: every half-hour step that leaves room for the
   activity, in ascending order. *)
GranularDomain(duration, start, end) ==
    [k \in 1..((end - start) - duration + 1) |-> start + (k - 1)]

(* C1: in a returned schedule no two distinct activities overlap, the end
   of each being its start plus its declared duration. *)
C1_NoOverlap ==
    Returned =>
        \A i, j \in 1..Len(activities) :
            i # j =>
                \/ StartOf(i) + activities[i].duration <= StartOf(j)
                \/ StartOf(j) + activities[j].duration <= StartOf(i)

C1_Witness ==
    /\ Returned
    /\ Len(activities) = 2
    /\ activities[1].duration % 2 = 1
    /\ StartOf(1) < StartOf(2)
    /\ StartOf(2) < schedule[activities[1].name].end + 2

(* C2: in a returned schedule every hour an activity occupies, partial
   hours included, has an observed chance of rain acceptable for one of
   the activity's preferences. *)
C2_OccupiedHoursAcceptable ==
    Returned =>
        \A i \in 1..Len(activities) :
            WeatherFits(StartOf(i), activities[i].duration,
                        activities[i].weather)

(* C3: no returned schedule places an activity over an hour that has no
   observation. *)
C3_FailClosed ==
    Returned =>
        \A i \in 1..Len(activities) :
            OccupiedHours(StartOf(i), activities[i].duration)
                \subseteq DOMAIN weather_dict

(* C4: the domain built for an activity is the ascending sequence of all
   half-hour steps t from the window start with t + duration <= end. *)
C4_DomainIsGranular ==
    \A i \in 1..Len(possible) :
        possible[i] = GranularDomain(activities[i].duration,
                                     start_datetime, end_datetime)

(* C5: when distinctly named activities can be placed on half-hour steps
   inside the window, pairwise disjoint and each fitting its weather
   constraint, solve_csp returns a schedule. *)
Feasible ==
    \E f \in [1..Len(activities) -> start_datetime..end_datetime] :
        /\ \A i \in 1..Len(activities) :
              /\ f[i] + activities[i].duration <= end_datetime
              /\ WeatherFits(f[i], activities[i].duration,
                             activities[i].weather)
        /\ \A i, j \in 1..Len(activities) :
              i # j => \/ f[i] + activities[i].duration <= f[j]
                       \/ f[j] + activities[j].duration <= f[i]

C5_FeasibleIsScheduled ==
    (pc = "done" /\ DistinctNames /\ Feasible) => result = "schedule"

(* C6: every activity of a returned schedule starts no earlier than the
   window and ends no later than it. *)
C6_InsideWindow ==
    Returned =>
        \A i \in 1..Len(activities) :
            is_within_time_range(start_datetime, end_datetime,
                                 StartOf(i), activities[i].duration)

C6_Witness ==
    /\ Returned
    /\ \E i \in 1..Len(activities) :
          /\ StartOf(i) > start_datetime
          /\ activities[i].duration % 2 = 1

(* C7: when the domain generated for an activity is empty, solve_csp
   returns the no-feasible-schedule result and raises nothing. *)
C7_EmptyDomainIsInfeasible ==
    (pc = "done" /\ \E i \in 1..Len(possible) : possible[i] = <<>>)
        => result = "No feasible schedule found."

(* C8: a single activity is scheduled at the earliest start of its domain
   that satisfies the weather constraint; one 1-hour Sunny activity in
   08:00-12:00 with chance of rain 10 at 8, 9, 10 and 11 has all four
   hours as starts and is scheduled 08:00-09:00. *)
SunnyMorning ==
    /\ Len(activities) = 1
    /\ activities[1].duration = 2
    /\ activities[1].weather = <<"Sunny">>
    /\ start_datetime = 16
    /\ end_datetime = 24
    /\ weather_dict = [h \in HourKeys |-> 10]

C8_EarliestFirst ==
    /\ (Returned /\ Len(activities) = 1) =>
          LET a == activities[1]
              Fits(t) == weather_constraint(t, a.duration, a.weather,
                                            weather_dict)
          IN  /\ Fits(StartOf(1))
              /\ \A k \in 1..Len(possible[1]) :
                    Fits(possible[1][k]) => StartOf(1) <= possible[1][k]
    /\ (pc = "done" /\ SunnyMorning) =>
          /\ possible[1] = <<16, 18, 20, 22>>
          /\ result = "schedule"
          /\ schedule[activities[1].name] = [start |-> 16, end |-> 18]

(* C9: an activity longer than the window, or a window that ends no later
   than it starts, yields a validation error: neither the infeasibility
   result nor an uncaught exception. *)
C9_MalformedIsValidationError ==
    (/\ pc = "done"
     /\ \/ end_datetime <= start_datetime
        \/ \E i \in 1..Len(activities) :
              activities[i].duration > end_datetime - start_datetime)
        => result = "validation error"

(* C10: weather_condition_check is true exactly when some listed
   preference matches (Sunny: rain < 20, Cloudy: 20 <= rain <= 70, Rainy:
   rain > 70); so 20 and 70 are Cloudy only, the order of the preferences
   is irrelevant and an empty list gives false. *)
C10_PredicateIsOr ==
    wcc_result # "pending" =>
        /\ (wcc_result = "True") <=> Acceptable(wcc_rain, wcc_prefs)
        /\ wcc_rain \in {20, 70} =>
              ((wcc_result = "True") <=> "Cloudy" \in Range(wcc_prefs))
        /\ wcc_prefs = <<>> => wcc_result = "False"
        /\ \A other \in SeqsUpTo(Conditions, MaxPrefs) :
              Range(other) = Range(wcc_prefs) =>
                  (weather_condition_check(wcc_rain, other)
                      <=> (wcc_result = "True"))

C10_Witness ==
    /\ wcc_result = "True"
    /\ wcc_rain = 70
    /\ wcc_prefs = <<"Rainy", "Cloudy">>

====
